---- MODULE Spec2Model ----
(***************************************************************************)
(* A model of slurmpy (src/slurmpy.py): the module-level functions         *)
(* SubmitSlurmFile, WrapSlurmCommand, WriteSlurmFile, JobStatus and        *)
(* ShowStatus, and the SlurmJob handle built on them.                      *)
(*                                                                         *)
(* Python values are tagged records: None, str, int, list.  A text that    *)
(* the code parses (sbatch's and sacct's output) is a sequence of          *)
(* one-character strings, so that str.split is modelled by what it does.   *)
(* A text the code only formats into its output (a job name, a path, an    *)
(* option value) is a TLA+ string.                                         *)
(***************************************************************************)
EXTENDS Integers, Sequences, FiniteSets, TLC

VARIABLES
    attrs,   \* vars(self) of the SlurmJob handle: attribute name -> value
    files,   \* the script files on disk: path -> content, or NoFile
    dirs,    \* the directories that exist, each a tuple of path components
    inp,     \* the text the external tool prints (sbatch or sacct)
    last,    \* the outcome of the most recent operation
    hist,    \* what the handle's callers have done so far
    pc,      \* concurrent callers: each caller's position in its call
    loc      \* concurrent callers: each caller's arguments and open file

vars == <<attrs, files, dirs, inp, last, hist, pc, loc>>

----------------------------------------------------------------------------
(* Python values *)

Absent == [t |-> "absent"]        \* no such attribute / argument not passed
NoneV == [t |-> "none"]
Str(s) == [t |-> "str", v |-> s]
Num(n) == [t |-> "int", v |-> n]
List(l) == [t |-> "list", v |-> l]
Path(p) == [t |-> "path", v |-> p]      \* a str naming a directory, by components
Chars(cs) == [t |-> "chars", v |-> cs]  \* a str cut out of a parsed text

\* bool(v): None, '', 0 and [] are falsy
Truthy(v) ==
    CASE v.t = "absent" -> FALSE
      [] v.t = "none" -> FALSE
      [] v.t = "str" -> v.v # ""
      [] v.t = "int" -> v.v # 0
      [] v.t = "list" -> Len(v.v) > 0
      [] v.t = "path" -> Len(v.v) > 0
      [] v.t = "chars" -> Len(v.v) > 0
      [] OTHER -> TRUE

\* the outcome of a call: it returns a value or raises an exception
Return(v) == [kind |-> "return", val |-> v, exc |-> ""]
Raise(e) == [kind |-> "raise", val |-> NoneV, exc |-> e]

----------------------------------------------------------------------------
(* str.split *)

IsSpace(c) == c \in {" ", "\n", "\t"}

\* text.split(): the maximal runs of non-whitespace characters, in order
RECURSIVE SplitFrom(_, _, _)
SplitFrom(text, i, cur) ==
    IF i > Len(text)
    THEN IF cur = <<>> THEN <<>> ELSE <<cur>>
    ELSE IF IsSpace(text[i])
         THEN IF cur = <<>>
              THEN SplitFrom(text, i + 1, <<>>)
              ELSE <<cur>> \o SplitFrom(text, i + 1, <<>>)
         ELSE SplitFrom(text, i + 1, Append(cur, text[i]))

Split(text) == SplitFrom(text, 1, <<>>)

\* text.split('\n'): the pieces between newlines, empty pieces included
RECURSIVE SplitLinesFrom(_, _, _)
SplitLinesFrom(text, i, cur) ==
    IF i > Len(text)
    THEN <<cur>>
    ELSE IF text[i] = "\n"
         THEN <<cur>> \o SplitLinesFrom(text, i + 1, <<>>)
         ELSE SplitLinesFrom(text, i + 1, Append(cur, text[i]))

SplitLines(text) == SplitLinesFrom(text, 1, <<>>)

RECURSIVE Concat(_)
Concat(ss) == IF ss = <<>> THEN <<>> ELSE Head(ss) \o Concat(Tail(ss))

Range(s) == {s[i] : i \in 1..Len(s)}

\* the literal 'Submitted'
Submitted == <<"S", "u", "b", "m", "i", "t", "t", "e", "d">>

\* src/slurmpy.py 54-59 and 153-156: the job id out of sbatch's output
ParseJobId(out) ==
    LET toks == Split(out)
    IN  IF toks = <<>>
        THEN Raise("IndexError")                 \* process.stdout.split()[0]
        ELSE IF toks[1] = Submitted
             THEN Return(Chars(toks[Len(toks)])) \* process.stdout.split()[-1]
             ELSE Return(NoneV)

----------------------------------------------------------------------------
(* Keyword arguments.  A call's keyword arguments, and the handle's         *)
(* attributes, are a mapping from AttrNames to values, Absent where the     *)
(* name is not given.  Python iterates a dict in insertion order; the model *)
(* iterates in the fixed order NameOrder.                                   *)

NameOrder ==
    <<"jobname", "command", "filename", "interpreter", "array", "variable",
      "output_directory", "dependency", "threads", "array_limit", "deptype",
      "email", "index", "partition", "account", "_jobid">>

AttrNames == Range(NameOrder)

NoArgs == [n \in AttrNames |-> Absent]

\* src/slurmpy.py 159-164: the named parameters of WriteSlurmFile
WriteNamed ==
    {"jobname", "command", "filename", "interpreter", "array", "variable",
     "output_directory", "dependency", "threads", "array_limit", "deptype",
     "email"}

\* src/slurmpy.py 63-66: the named parameters of WrapSlurmCommand
WrapNamed ==
    {"command", "jobname", "index", "output_directory", "dependency", "email",
     "threads", "deptype"}

\* a named parameter's value: the argument, or the signature's default
Arg(p, name, default) == IF p[name] = Absent THEN default ELSE p[name]

\* **slurm_params: the keyword arguments that bind to no named parameter
SlurmParams(p, named) ==
    SelectSeq(NameOrder, LAMBDA n : n \notin named /\ p[n] # Absent)

\* SlurmJob 466 and 492: {k: vars(self)[k] for k in vars(self) if not k.startswith('_')}
PublicAttrs(a) == [n \in AttrNames |-> IF n = "_jobid" THEN Absent ELSE a[n]]

\* one '--name=value' option of a command line
Opt(name, val) == [k |-> "opt", name |-> name, val |-> val]

\* one line of a script
Line(k, name, val) == [k |-> k, name |-> name, val |-> val]
Sbatch(name, val) == Line("sbatch", name, val)     \* '#SBATCH --name=value'
Blank == Line("blank", "", NoneV)

\* 'after{}:{}'.format(deptype, dependency)
After(p) == [t |-> "after", deptype |-> Arg(p, "deptype", Str("ok")),
             id |-> p["dependency"]]

\* '{}/%x-%j.out'.format(output_directory)
Pattern(dir, pat) == [t |-> "pattern", dir |-> dir, pat |-> pat]

\* type(command) is str: [command]; else the list itself
CommandLines(c) == IF c.t = "list" THEN c.v ELSE <<c.v>>

----------------------------------------------------------------------------
(* The file system *)

NoFile == [t |-> "nofile"]

\* os.path.exists(output_directory)
DirExists(d) == d \in dirs

Parent(d) == SubSeq(d, 1, Len(d) - 1)

\* os.mkdir(d): single level; the working directory <<>> always exists
\* os.makedirs(d, exist_ok = True) in the place of os.mkdir(d)
MkdirExistOk(d) ==
    IF d \in dirs THEN "ok"
    ELSE IF Parent(d) # <<>> /\ Parent(d) \notin dirs THEN "FileNotFoundError"
    ELSE "ok"

Mkdir(d) ==
    IF d \in dirs THEN "FileExistsError"
    ELSE IF Parent(d) # <<>> /\ Parent(d) \notin dirs THEN "FileNotFoundError"
    ELSE "ok"

FileAt(fn) == IF fn \in DOMAIN files THEN files[fn] ELSE NoFile

\* os.path.exists(filename)
FileExists(fn) == FileAt(fn) # NoFile

\* the file system with path fn holding content
WithFile(fs, fn, content) == [q \in DOMAIN fs \cup {fn} |-> IF q = fn THEN content ELSE fs[q]]

\* src/slurmpy.py 136-138 and 267-269, run without interruption:
\*     if output_directory:
\*         if not os.path.exists(output_directory):
\*             os.mkdir(output_directory)
NoDirStep == [reached |-> FALSE, target |-> <<>>, existed |-> FALSE, mkdir |-> "none"]

\* the same with the test of os.path.exists left out
DirStepNoCheck(od) ==
    IF ~Truthy(od)
    THEN [reached |-> TRUE, target |-> <<>>, existed |-> FALSE, mkdir |-> "none"]
    ELSE [reached |-> TRUE, target |-> od.v, existed |-> DirExists(od.v), mkdir |-> Mkdir(od.v)]

DirStep(od) ==
    IF ~Truthy(od)
    THEN [reached |-> TRUE, target |-> <<>>, existed |-> FALSE, mkdir |-> "none"]
    ELSE IF DirExists(od.v)
         THEN [reached |-> TRUE, target |-> od.v, existed |-> TRUE, mkdir |-> "none"]
         ELSE [reached |-> TRUE, target |-> od.v, existed |-> FALSE, mkdir |-> Mkdir(od.v)]

DirsAfter(ds) == IF ds.mkdir = "ok" THEN dirs \cup {ds.target} ELSE dirs

----------------------------------------------------------------------------
(* WriteSlurmFile, src/slurmpy.py 159-292 *)

WriteFilenameAlwaysDefault(p) == Str(p["jobname"].v \o ".srun")

\* 239-240: if not filename: filename = jobname + '.srun'
WriteFilename(p) ==
    IF ~Truthy(Arg(p, "filename", NoneV))
    THEN Str(p["jobname"].v \o ".srun")
    ELSE p["filename"]

\* 243-250: the shebang line
Shebang(p) ==
    LET interpreter == Arg(p, "interpreter", Str("bash"))
    IN  IF interpreter = Str("python") THEN Line("shebang", "", Str("sys.executable"))
        ELSE IF interpreter = Str("bash") THEN Line("shebang", "", Str("/bin/bash"))
        ELSE Line("shebang", "", interpreter)

\* 264-265: for arg in slurm_params: f.write('#SBATCH --{}={}\n'...)
WriteGeneric(p) ==
    LET names == SlurmParams(p, WriteNamed)
    IN  [i \in 1..Len(names) |-> Sbatch(names[i], p[names[i]])]

\* 243-265: what is written before the output directory is looked at
ScriptHead(p) ==
    <<Shebang(p), Sbatch("job-name", p["jobname"])>>
    \o (IF Truthy(p["email"])
        THEN <<Sbatch("mail-user", p["email"]), Sbatch("mail-type", Str("END"))>>
        ELSE <<>>)
    \o (IF Truthy(p["dependency"]) THEN <<Sbatch("dependency", After(p))>> ELSE <<>>)
    \o (IF Truthy(p["threads"]) THEN <<Sbatch("cpus-per-task", p["threads"])>> ELSE <<>>)
    \o WriteGeneric(p)

\* 270-275: the output and error directives
ScriptOutput(p) ==
    LET od == Arg(p, "output_directory", NoneV)
    IN  IF ~Truthy(od) THEN <<>>
        ELSE IF Truthy(p["array"])
             THEN <<Sbatch("output", Pattern(od, "%x-%A_%a.out")),
                    Sbatch("error", Pattern(od, "%x-%A_%a.err")), Blank>>
             ELSE <<Sbatch("output", Pattern(od, "%x-%j.out")),
                    Sbatch("error", Pattern(od, "%x-%j.err")), Blank>>

\* '0-{}'.format(len(array) - 1), then '%{}'.format(array_limit) if array_limit
ArrayRangeLen(array, array_limit) ==
    [t |-> "range", lo |-> 0, hi |-> Len(array.v),
     capped |-> Truthy(array_limit), limit |-> array_limit]

ArrayRange(array, array_limit) ==
    [t |-> "range", lo |-> 0, hi |-> Len(array.v) - 1,
     capped |-> Truthy(array_limit), limit |-> array_limit]

\* 277-282: the array directive, the data literal and the variable's assignment
ScriptArray(p) ==
    IF ~Truthy(p["array"]) THEN <<>>
    ELSE <<Sbatch("array", ArrayRange(p["array"], Arg(p, "array_limit", NoneV))),
           Blank,
           Line("data", "data", p["array"]),
           Blank,
           Line("assign", Arg(p, "variable", Str("x")).v, Str("${data[$SLURM_ARRAY_TASK_ID]}")),
           Blank>>

\* 287-290: a newline, then the command lines
ScriptBody(p) ==
    LET command == CommandLines(p["command"])
    IN  <<Blank>> \o [i \in 1..Len(command) |-> Line("cmd", "", Str(command[i]))]

Script(p) == ScriptHead(p) \o ScriptOutput(p) \o ScriptArray(p) \o ScriptBody(p)

\* the whole call, run without interruption: its result, the file system
\* after it and what it did about the output directory
WriteSlurmFile(p) ==
    IF p["jobname"] = Absent \/ p["command"] = Absent
    THEN [res |-> Raise("TypeError"), files |-> files, dirs |-> dirs,
          calls |-> <<>>, dstep |-> NoDirStep]
    ELSE LET fn == WriteFilename(p)
             ds == DirStep(Arg(p, "output_directory", NoneV))
         IN  IF ds.mkdir \in {"none", "ok"}
             THEN [res |-> Return(fn), files |-> WithFile(files, fn.v, Script(p)),
                   dirs |-> DirsAfter(ds), calls |-> <<>>, dstep |-> ds]
             ELSE \* the with block closes the file on the way out
                  [res |-> Raise(ds.mkdir), files |-> WithFile(files, fn.v, ScriptHead(p)),
                   dirs |-> dirs, calls |-> <<>>, dstep |-> ds]

----------------------------------------------------------------------------
(* WrapSlurmCommand, src/slurmpy.py 63-156 *)

\* 133-134: for arg in slurm_params: slurm += '--{}={} '...
WrapGeneric(p) ==
    LET names == SlurmParams(p, WrapNamed)
    IN  [i \in 1..Len(names) |-> Opt(names[i], p[names[i]])]

\* 121-134: the options before the output directory is looked at
WrapHead(p) ==
    (IF Truthy(p["jobname"]) THEN <<Opt("job-name", p["jobname"])>> ELSE <<>>)
    \o (IF Truthy(p["email"])
        THEN <<Opt("mail-user", p["email"]), Opt("mail-type", Str("END"))>>
        ELSE <<>>)
    \o (IF Truthy(p["dependency"]) THEN <<Opt("dependency", After(p))>> ELSE <<>>)
    \o (IF Truthy(p["threads"]) THEN <<Opt("cpus-per-task", p["threads"])>> ELSE <<>>)
    \o WrapGeneric(p)

\* 139-140
WrapOutput(p) ==
    LET od == Arg(p, "output_directory", NoneV)
    IN  IF ~Truthy(od) THEN <<>>
        ELSE <<Opt("output", Pattern(od, "%x-%j.out")), Opt("error", Pattern(od, "%x-%j.err"))>>

\* 142-149: the shell command line handed to subprocess.run
WrapInvocation(p) ==
    [form |-> "shell", opts |-> WrapHead(p) \o WrapOutput(p), file |-> "",
     wrap |-> CommandLines(p["command"])]

\* the whole call, run without interruption; out is what sbatch prints
WrapSlurmCommand(p, out) ==
    IF p["command"] = Absent
    THEN [res |-> Raise("TypeError"), files |-> files, dirs |-> dirs,
          calls |-> <<>>, dstep |-> NoDirStep]
    ELSE LET ds == DirStep(Arg(p, "output_directory", NoneV))
         IN  IF ds.mkdir \in {"none", "ok"}
             THEN [res |-> ParseJobId(out), files |-> files, dirs |-> DirsAfter(ds),
                   calls |-> <<WrapInvocation(p)>>, dstep |-> ds]
             ELSE [res |-> Raise(ds.mkdir), files |-> files, dirs |-> dirs,
                   calls |-> <<>>, dstep |-> ds]

----------------------------------------------------------------------------
(* SubmitSlurmFile, src/slurmpy.py 23-59 *)

\* 43-45: options += '--{}={} '.format(arg, slurm_params[arg])
SubmitOptions(sp) ==
    LET names == SlurmParams(sp, {})
    IN  [i \in 1..Len(names) |-> Opt(names[i], sp[names[i]])]

SubmitSlurmFileNoCheck(filename, sp, out) ==
    [res |-> ParseJobId(out), files |-> files, dirs |-> dirs,
     calls |-> <<[form |-> "argv", opts |-> SubmitOptions(sp), file |-> filename,
                  wrap |-> <<>>]>>,
     dstep |-> NoDirStep]

SubmitSlurmFile(filename, sp, out) ==
    IF ~FileExists(filename)
    THEN [res |-> Return(NoneV), files |-> files, dirs |-> dirs,
          calls |-> <<>>, dstep |-> NoDirStep]
    ELSE [res |-> ParseJobId(out), files |-> files, dirs |-> dirs,
          calls |-> <<[form |-> "argv", opts |-> SubmitOptions(sp), file |-> filename,
                       wrap |-> <<>>]>>,
          dstep |-> NoDirStep]

----------------------------------------------------------------------------
(* JobInfo, JobStatus and ShowStatus, src/slurmpy.py 320-377 *)

\* 362-369: the sacct invocation; its output is returned as it is
JobInfoCall(jobid, format_list, noheader) ==
    [form |-> "sacct",
     opts |-> <<Opt("j", jobid), Opt("format", format_list)>>
              \o (IF noheader THEN <<Opt("n", NoneV)>> ELSE <<>>),
     file |-> "", wrap |-> <<>>]

\* 335-339: the rows of sacct's output, blank rows and the rows whose first
\* field holds a '+' left out
JobStatusRowsNoFilter(out) ==
    LET lines == SplitLines(out)
    IN  SelectSeq([i \in 1..Len(lines) |-> Split(lines[i])], LAMBDA toks : toks # <<>>)

JobStatusRows(out) ==
    LET lines == SplitLines(out)
    IN  SelectSeq([i \in 1..Len(lines) |-> Split(lines[i])],
                  LAMBDA toks : toks # <<>> /\ "+" \notin Range(toks[1]))

JobStatus(jobid, out) ==
    [res |-> Return(List(JobStatusRows(out))), files |-> files, dirs |-> dirs,
     calls |-> <<JobInfoCall(jobid, <<"jobid", "state">>, TRUE)>>,
     dstep |-> NoDirStep, printed |-> <<>>]

\* statuses.count(x)
RECURSIVE Count(_, _)
Count(s, x) ==
    IF s = <<>> THEN 0 ELSE (IF Head(s) = x THEN 1 ELSE 0) + Count(Tail(s), x)

\* 376-377: for x in set(statuses): print(x, statuses.count(x)).  What is
\* printed is a bag of lines: line -> the number of times it is printed.
PrintCounts(statuses) ==
    [ln \in {<<x, Count(statuses, x)>> : x \in Range(statuses)} |-> 1]

\* 375: statuses = [x[1] for x in JobStatus(jobid)]
ShowStatus(jobid, out) ==
    LET rows == JobStatusRows(out)
        call == <<JobInfoCall(jobid, <<"jobid", "state">>, TRUE)>>
    IN  IF \E i \in 1..Len(rows) : Len(rows[i]) < 2
        THEN [res |-> Raise("IndexError"), files |-> files, dirs |-> dirs,
              calls |-> call, dstep |-> NoDirStep, printed |-> <<>>]
        ELSE [res |-> Return(NoneV), files |-> files, dirs |-> dirs,
              calls |-> call, dstep |-> NoDirStep,
              printed |-> PrintCounts([i \in 1..Len(rows) |-> rows[i][2]])]

----------------------------------------------------------------------------
(* The SlurmJob handle, src/slurmpy.py 381-596.  Each operation gives the   *)
(* handle's attributes after it besides the outcome of the call.            *)

HasAttr(name) == attrs[name] # Absent

Failed(e) ==
    [attrs |-> attrs, res |-> Raise(e), files |-> files, dirs |-> dirs,
     calls |-> <<>>, dstep |-> NoDirStep]

\* 461-469 with the check of 458-459 left out: self.filename is assigned
\* before the missing job name is noticed
SlurmJob_WriteSlurmFile_NoCheck(filename) ==
    IF ~HasAttr("jobname") /\ ~Truthy(filename)
    THEN Failed("AttributeError")
    ELSE LET a1 == [attrs EXCEPT !["filename"] =
                       IF Truthy(filename) THEN filename
                       ELSE Str(attrs["jobname"].v \o ".srun")]
             eff == WriteSlurmFile(PublicAttrs(a1))
         IN  [attrs |-> a1, res |-> eff.res, files |-> eff.files, dirs |-> eff.dirs,
              calls |-> <<>>, dstep |-> eff.dstep]

\* 458-469.  The interpreter argument is not used by the method.
SlurmJob_WriteSlurmFile(filename) ==
    IF ~HasAttr("jobname")
    THEN [attrs |-> attrs, res |-> Raise("ValueError"), files |-> files, dirs |-> dirs,
          calls |-> <<>>, dstep |-> NoDirStep]
    ELSE LET a1 == [attrs EXCEPT !["filename"] =
                       IF Truthy(filename) THEN filename
                       ELSE Str(attrs["jobname"].v \o ".srun")]
             eff == WriteSlurmFile(PublicAttrs(a1))
         IN  [attrs |-> a1, res |-> eff.res, files |-> eff.files, dirs |-> eff.dirs,
              calls |-> <<>>, dstep |-> eff.dstep]

\* self._jobid = <call>: the assignment happens when the call returns
AssignJobid(eff) ==
    [attrs |-> IF eff.res.kind = "return"
               THEN [attrs EXCEPT !["_jobid"] = eff.res.val]
               ELSE attrs,
     res |-> eff.res, files |-> eff.files, dirs |-> eff.dirs,
     calls |-> eff.calls, dstep |-> eff.dstep]

\* 479-480: self._jobid = SubmitSlurmFile(self.filename)
SlurmJob_SubmitSlurmFile(out) ==
    IF ~HasAttr("filename")
    THEN Failed("AttributeError")
    ELSE AssignJobid(SubmitSlurmFile(attrs["filename"].v, NoArgs, out))

\* 492-495: self._jobid = WrapSlurmCommand(**params)
SlurmJob_WrapSlurmCommand(out) ==
    AssignJobid(WrapSlurmCommand(PublicAttrs(attrs), out))

\* 567-570: ShowStatus(self._jobid)
SlurmJob_ShowStatus(out) ==
    IF ~HasAttr("_jobid")
    THEN [attrs |-> attrs, res |-> Raise("AttributeError"), files |-> files,
          dirs |-> dirs, calls |-> <<>>, dstep |-> NoDirStep, printed |-> <<>>]
    ELSE LET eff == ShowStatus(attrs["_jobid"], out)
         IN  [attrs |-> attrs, res |-> eff.res, files |-> files, dirs |-> dirs,
              calls |-> eff.calls, dstep |-> NoDirStep, printed |-> eff.printed]

\* 555-558: JobStatus(self._jobid)
SlurmJob_JobStatus(out) ==
    IF ~HasAttr("_jobid")
    THEN [attrs |-> attrs, res |-> Raise("AttributeError"), files |-> files,
          dirs |-> dirs, calls |-> <<>>, dstep |-> NoDirStep, printed |-> <<>>]
    ELSE LET eff == JobStatus(attrs["_jobid"], out)
         IN  [attrs |-> attrs, res |-> eff.res, files |-> files, dirs |-> dirs,
              calls |-> eff.calls, dstep |-> NoDirStep, printed |-> <<>>]

----------------------------------------------------------------------------
(* State *)

NoRes == [kind |-> "none", val |-> NoneV, exc |-> ""]

\* the record kept of the most recent operation: its name, its argument, its
\* result, the external tools it ran, what it did about the output directory
\* and what it printed
Outcome(op, arg, eff, printed) ==
    [op |-> op, arg |-> arg, res |-> eff.res, calls |-> eff.calls,
     dstep |-> eff.dstep, printed |-> printed]

NoOutcome ==
    [op |-> "none", arg |-> NoneV, res |-> NoRes, calls |-> <<>>,
     dstep |-> NoDirStep, printed |-> <<>>]

NoHist == [submitted |-> FALSE, lastSubmit |-> NoRes, lastWrite |-> NoRes]

NoInput == [text |-> <<>>, rows |-> <<>>]

----------------------------------------------------------------------------
(* Texts of the external tools *)

SP == <<" ">>
NL == <<"\n">>
Job12 == <<"1", "2">>
Job7 == <<"7">>

\* 'Submitted batch job <id>\n'
SubmittedText(id) ==
    Concat(<<Submitted, SP, <<"b", "a", "t", "c", "h">>, SP, <<"j", "o", "b">>, SP, id, NL>>)

ErrorText == Concat(<<<<"s", "b", "a", "t", "c", "h", ":">>, SP, <<"e", "r", "r", "o", "r">>, NL>>)

\* what sbatch may print
SbatchOutputs == {SubmittedText(Job12), SubmittedText(Job7), ErrorText, <<>>}

\* one row of sacct -n --format jobid,state: the columns are padded with spaces
RowText(r) ==
    IF r.kind = "blank" THEN SP
    ELSE IF r.kind = "idonly" THEN SP \o r.id \o SP
    ELSE SP \o r.id \o SP \o SP \o r.state \o SP

\* sacct's output: every row ends with a newline
RECURSIVE RowsText(_)
RowsText(rows) ==
    IF rows = <<>> THEN <<>> ELSE RowText(Head(rows)) \o NL \o RowsText(Tail(rows))

Row(id, state) == [kind |-> "row", id |-> id, state |-> state]

StatusInput(rows) == [text |-> RowsText(rows), rows |-> rows]

----------------------------------------------------------------------------
(* Actions: one per operation a caller can run *)

\* sj.<name> = <value>
SetAttr(name, value) ==
    /\ attrs' = [attrs EXCEPT ![name] = value]
    /\ last' = [NoOutcome EXCEPT !.op = "setattr", !.arg = Str(name)]
    /\ hist' = IF name = "filename" THEN [hist EXCEPT !.lastWrite = NoRes] ELSE hist
    /\ UNCHANGED <<files, dirs, inp, pc, loc>>

\* sj.WriteSlurmFile(filename)
JobWrite(filename) ==
    LET eff == SlurmJob_WriteSlurmFile(filename)
    IN  /\ attrs' = eff.attrs
        /\ files' = eff.files
        /\ dirs' = eff.dirs
        /\ last' = Outcome("SlurmJob.WriteSlurmFile", filename, eff, <<>>)
        /\ hist' = [hist EXCEPT !.lastWrite = eff.res]
        /\ UNCHANGED <<inp, pc, loc>>

\* sj.SubmitSlurmFile(); out is what sbatch prints if it is run
JobSubmit(out) ==
    LET eff == SlurmJob_SubmitSlurmFile(out)
    IN  /\ attrs' = eff.attrs
        /\ last' = Outcome("SlurmJob.SubmitSlurmFile", attrs["filename"], eff, <<>>)
        /\ hist' = [hist EXCEPT !.submitted = TRUE, !.lastSubmit = eff.res]
        /\ UNCHANGED <<files, dirs, inp, pc, loc>>

\* sj.WrapSlurmCommand()
JobWrap(out) ==
    LET eff == SlurmJob_WrapSlurmCommand(out)
    IN  /\ attrs' = eff.attrs
        /\ dirs' = eff.dirs
        /\ last' = Outcome("SlurmJob.WrapSlurmCommand", NoneV, eff, <<>>)
        /\ hist' = [hist EXCEPT !.submitted = TRUE, !.lastSubmit = eff.res]
        /\ UNCHANGED <<files, inp, pc, loc>>

\* sj.ShowStatus(); out is what sacct prints
JobShowStatus(out) ==
    LET eff == SlurmJob_ShowStatus(out)
    IN  /\ attrs' = eff.attrs
        /\ last' = Outcome("SlurmJob.ShowStatus", NoneV, eff, eff.printed)
        /\ UNCHANGED <<files, dirs, inp, hist, pc, loc>>

\* sj.JobStatus()
JobJobStatus(out) ==
    LET eff == SlurmJob_JobStatus(out)
    IN  /\ attrs' = eff.attrs
        /\ last' = Outcome("SlurmJob.JobStatus", NoneV, eff, <<>>)
        /\ UNCHANGED <<files, dirs, inp, hist, pc, loc>>

\* WriteSlurmFile(**p), called directly
CallWrite(p) ==
    LET eff == WriteSlurmFile(p)
    IN  /\ files' = eff.files
        /\ dirs' = eff.dirs
        /\ last' = Outcome("WriteSlurmFile", p, eff, <<>>)
        /\ UNCHANGED <<attrs, inp, hist, pc, loc>>

\* WrapSlurmCommand(**p), called directly
CallWrap(p, out) ==
    LET eff == WrapSlurmCommand(p, out)
    IN  /\ dirs' = eff.dirs
        /\ last' = Outcome("WrapSlurmCommand", p, eff, <<>>)
        /\ UNCHANGED <<attrs, files, inp, hist, pc, loc>>

\* SubmitSlurmFile(filename), called directly
CallSubmit(filename, out) ==
    LET eff == SubmitSlurmFile(filename, NoArgs, out)
    IN  /\ last' = Outcome("SubmitSlurmFile", Str(filename), eff, <<>>)
        /\ UNCHANGED <<attrs, files, dirs, inp, hist, pc, loc>>

\* ShowStatus(jobid), called directly
CallShowStatus(jobid, out) ==
    LET eff == ShowStatus(jobid, out)
    IN  /\ last' = Outcome("ShowStatus", jobid, eff, eff.printed)
        /\ UNCHANGED <<attrs, files, dirs, inp, hist, pc, loc>>

\* JobStatus(jobid), called directly
CallJobStatus(jobid, out) ==
    LET eff == JobStatus(jobid, out)
    IN  /\ last' = Outcome("JobStatus", jobid, eff, <<>>)
        /\ UNCHANGED <<attrs, files, dirs, inp, hist, pc, loc>>

----------------------------------------------------------------------------
(* Spec: one handle, created empty, and the operations run on it one at a   *)
(* time, besides direct calls of the module's functions.                    *)

NoCallers == [c \in {} |-> 0]

\* the values a caller gives the attributes
Settable ==
    [jobname |-> {Str("a")}, command |-> {Str("echo")}, filename |-> {Str("gone.srun")}]

\* the explicit script paths of a write
WritePaths == {NoneV, Str("x.srun")}

\* the keyword arguments of a direct WriteSlurmFile call
DirectArgs ==
    {[NoArgs EXCEPT !["jobname"] = Str("a"), !["command"] = Str("echo")],
     [NoArgs EXCEPT !["jobname"] = Str("a"), !["command"] = Str("echo"),
                    !["filename"] = Str("x.srun")]}

SacctOutputs ==
    {RowsText(<<Row(<<"1">>, <<"O", "K">>), Row(<<"1", "+", "1">>, <<"O", "K">>)>>), <<>>}

Init ==
    /\ attrs = NoArgs
    /\ files = [q \in {} |-> NoFile]
    /\ dirs = {}
    /\ inp = NoInput
    /\ last = NoOutcome
    /\ hist = NoHist
    /\ pc = NoCallers
    /\ loc = NoCallers

Next ==
    \/ \E name \in DOMAIN Settable : \E value \in Settable[name] : SetAttr(name, value)
    \/ \E filename \in WritePaths : JobWrite(filename)
    \/ \E out \in SbatchOutputs : JobSubmit(out)
    \/ \E out \in SbatchOutputs : JobWrap(out)
    \/ \E out \in SacctOutputs : JobShowStatus(out)
    \/ \E out \in SacctOutputs : JobJobStatus(out)
    \/ \E p \in DirectArgs : CallWrite(p)
    \/ \E filename \in {"a.srun", "x.srun", "gone.srun"}, out \in SbatchOutputs :
          CallSubmit(filename, out)

Spec == Init /\ [][Next]_vars

----------------------------------------------------------------------------
(* Claims checked under Spec *)

\* C1: submit-file on a script path that does not exist does not run sbatch
\* and returns None; through the handle, the stored job id is None afterwards.
C1_MissingScriptNotSubmitted ==
    /\ (last.op = "SubmitSlurmFile" /\ ~FileExists(last.arg.v))
          => (last.calls = <<>> /\ last.res = Return(NoneV))
    /\ (last.op = "SlurmJob.SubmitSlurmFile" /\ last.arg # Absent /\ ~FileExists(last.arg.v))
          => (last.calls = <<>> /\ last.res = Return(NoneV) /\ attrs["_jobid"] = NoneV)

\* C1 happens: the handle, holding a job id from an earlier submission, is
\* pointed at a path that does not exist and submitted again
C1_Witness ==
    /\ last.op = "SlurmJob.SubmitSlurmFile"
    /\ last.arg = Str("gone.srun")
    /\ ~FileExists("gone.srun")
    /\ FileExists("a.srun")
    /\ attrs["_jobid"] = NoneV

\* C3, for the submissions that run sbatch: after a submission call on the
\* handle, the handle's job id is the result of that call, the id that was
\* parsed or None when the submission failed.
C3_JobidIsLastSubmission ==
    (/\ last.op \in {"SlurmJob.SubmitSlurmFile", "SlurmJob.WrapSlurmCommand"}
     /\ last.calls # <<>>)
        => /\ hist.submitted
           /\ last.res.kind = "return"
           /\ attrs["_jobid"] = last.res.val

C8_WrittenPathIsSubmitted ==
    /\ (last.op = "WriteSlurmFile" /\ last.res.kind = "return")
          => last.res.val = (IF Truthy(last.arg["filename"]) THEN last.arg["filename"]
                             ELSE Str(last.arg["jobname"].v \o ".srun"))
    /\ (last.op = "SlurmJob.WriteSlurmFile" /\ last.res.kind = "return")
          => /\ last.res.val = (IF Truthy(last.arg) THEN last.arg
                                ELSE Str(attrs["jobname"].v \o ".srun"))
             /\ attrs["filename"] = last.res.val
             /\ FileExists(last.res.val.v)
    /\ (last.op = "SlurmJob.SubmitSlurmFile" /\ hist.lastWrite.kind = "return")
          => /\ Len(last.calls) = 1
             /\ last.calls[1].form = "argv"
             /\ last.calls[1].file = hist.lastWrite.val.v

\* C8 happens: two writes to different paths, then a submit-file
C8_Witness ==
    /\ last.op = "SlurmJob.SubmitSlurmFile"
    /\ hist.lastWrite = Return(Str("x.srun"))
    /\ last.calls # <<>>
    /\ FileExists("a.srun")
    /\ attrs["_jobid"] = Chars(Job12)

----------------------------------------------------------------------------
(* SpecParse: the submit-file and the wrap pathway on every text sbatch may *)
(* print, built from up to MaxChunks pieces.                                *)

MaxChunks == 4

Chunks ==
    {Submitted, <<"S", "u", "b">>, <<"m", "i", "t", "t", "e", "d">>, Job12,
     <<"e", "r", "r">>, SP, NL}

ParseTexts == {Concat(cs) : cs \in UNION {[1..n -> Chunks] : n \in 0..MaxChunks}}

\* a handle ready for either pathway: SlurmJob(jobname = 'a', command = 'echo')
\* after WriteSlurmFile()
ReadyAttrs ==
    [NoArgs EXCEPT !["jobname"] = Str("a"), !["command"] = Str("echo"),
                   !["filename"] = Str("a.srun")]

InitParse ==
    /\ attrs = ReadyAttrs
    /\ files = [q \in {"a.srun"} |-> Script(PublicAttrs(ReadyAttrs))]
    /\ dirs = {}
    /\ inp \in {[text |-> t, rows |-> <<>>] : t \in ParseTexts}
    /\ last = NoOutcome
    /\ hist = [NoHist EXCEPT !.lastWrite = Return(Str("a.srun"))]
    /\ pc = NoCallers
    /\ loc = NoCallers

NextParse ==
    \/ CallSubmit("a.srun", inp.text)
    \/ CallWrap(PublicAttrs(attrs), inp.text)
    \/ JobSubmit(inp.text)
    \/ JobWrap(inp.text)

SpecParse == InitParse /\ [][NextParse]_vars

\* C2: on both pathways, for every text captured from sbatch, the call
\* returns the last token when the first token is Submitted and None
\* otherwise, empty and whitespace-only texts included; it never raises.
C2_JobidParsedOrNone ==
    (/\ last.op \in {"SubmitSlurmFile", "WrapSlurmCommand",
                      "SlurmJob.SubmitSlurmFile", "SlurmJob.WrapSlurmCommand"}
     /\ last.calls # <<>>)
        => LET toks == Split(inp.text)
           IN  last.res = Return(IF toks # <<>> /\ toks[1] = Submitted
                                 THEN Chars(toks[Len(toks)])
                                 ELSE NoneV)

----------------------------------------------------------------------------
(* SpecStatus: JobStatus and ShowStatus on every sacct output of up to      *)
(* MaxRows rows.                                                            *)

MaxRows == 3

StatusIds == {<<"1">>, <<"2">>, <<"1", "+", "1">>}
StatusStates == {<<"O", "K">>, <<"R", "U", "N">>, <<"O", "K", "+">>}

StatusRows ==
    {Row(id, st) : id \in StatusIds, st \in StatusStates}
    \cup {[kind |-> "blank", id |-> <<>>, state |-> <<>>],
          [kind |-> "idonly", id |-> <<"3">>, state |-> <<>>]}

InitStatus ==
    /\ attrs = NoArgs
    /\ files = [q \in {} |-> NoFile]
    /\ dirs = {}
    /\ inp \in {StatusInput(rs) : rs \in UNION {[1..n -> StatusRows] : n \in 0..MaxRows}}
    /\ last = NoOutcome
    /\ hist = NoHist
    /\ pc = NoCallers
    /\ loc = NoCallers

NextStatus ==
    \/ CallShowStatus(Chars(Job12), inp.text)
    \/ CallJobStatus(Chars(Job12), inp.text)

SpecStatus == InitStatus /\ [][NextStatus]_vars

\* the rows of (id, state) that are left: not blank, no '+' in the id
RemainingRows(rows) ==
    SelectSeq(rows, LAMBDA r : r.kind = "row" /\ "+" \notin Range(r.id))

RowsWithState(rows, st) == {i \in 1..Len(rows) : rows[i].state = st}

RECURSIVE SumOfCounts(_)
SumOfCounts(lines) ==
    IF lines = {} THEN 0
    ELSE LET ln == CHOOSE x \in lines : TRUE
         IN  ln[2] + SumOfCounts(lines \ {ln})

\* C7: for every sacct text of (id, state) rows, the rows with '+' in the id
\* and the blank rows are left out, and for each distinct state among the
\* others exactly one line 'state count' is printed, its count the number of
\* those rows with that state; the counts sum to the number of those rows.
C7_StatusCounts ==
    LET rem == RemainingRows(inp.rows)
        wellFormed == \A i \in 1..Len(inp.rows) : inp.rows[i].kind \in {"row", "blank"}
    IN  /\ (last.op = "ShowStatus" /\ wellFormed)
              => /\ last.res = Return(NoneV)
                 /\ DOMAIN last.printed =
                        {<<rem[i].state, Cardinality(RowsWithState(rem, rem[i].state))>> :
                            i \in 1..Len(rem)}
                 /\ \A ln \in DOMAIN last.printed : last.printed[ln] = 1
                 /\ SumOfCounts(DOMAIN last.printed) = Len(rem)
        /\ (last.op = "JobStatus" /\ wellFormed)
              => last.res = Return(List([i \in 1..Len(rem) |-> <<rem[i].id, rem[i].state>>]))

\* C7 happens: a '+' row between two rows of the same state, and a blank row
C7_Witness ==
    /\ last.op = "ShowStatus"
    /\ inp.rows = <<Row(<<"1">>, <<"O", "K">>), Row(<<"1", "+", "1">>, <<"O", "K">>),
                    Row(<<"2">>, <<"O", "K">>)>>
    /\ DOMAIN last.printed = {<<(<<"O", "K">>), 2>>}

----------------------------------------------------------------------------
(* SpecRender: a handle created from initial options, as SlurmJob's        *)
(* __init__ sets them, written and wrapped; and the same options given to  *)
(* direct calls.                                                            *)

MaxArray == 2

ArrayPool == <<"f1", "f2", "f3", "f4", "f5">>

ArrayValues == {NoneV} \cup {List(SubSeq(ArrayPool, 1, k)) : k \in 0..MaxArray}

RenderAttrs ==
    {[NoArgs EXCEPT !["jobname"] = j, !["command"] = c, !["array"] = a,
                    !["array_limit"] = al, !["partition"] = pa, !["threads"] = th,
                    !["interpreter"] = it, !["output_directory"] = od] :
        j \in {Absent, Str("a")},
        c \in {Str("echo"), List(<<"c1", "c2">>)},
        a \in ArrayValues \cup {Absent},
        al \in {Absent, Num(0), Num(2)},
        pa \in {Absent, NoneV, Str(""), Str("short"), Num(0)},
        th \in {Absent, Num(4)},
        it \in {Absent, Str("python")},
        od \in {Absent, Path(<<"out">>)}}

InitRender ==
    /\ attrs \in RenderAttrs
    /\ files = [q \in {} |-> NoFile]
    /\ dirs = {}
    /\ inp = NoInput
    /\ last = NoOutcome
    /\ hist = NoHist
    /\ pc = NoCallers
    /\ loc = NoCallers

NextRender ==
    \/ JobWrite(NoneV)
    \/ JobWrap(SubmittedText(Job12))
    \/ CallWrite(PublicAttrs(attrs))
    \/ CallWrap(PublicAttrs(attrs), SubmittedText(Job12))

SpecRender == InitRender /\ [][NextRender]_vars

\* the keyword arguments of the most recent write or wrap
LastArgs ==
    IF last.op \in {"WriteSlurmFile", "WrapSlurmCommand"} THEN last.arg
    ELSE PublicAttrs(attrs)

LastIsWrite == last.op \in {"WriteSlurmFile", "SlurmJob.WriteSlurmFile"}
LastIsWrap == last.op \in {"WrapSlurmCommand", "SlurmJob.WrapSlurmCommand"}

\* the names the claim reserves: command, interpreter, script file path,
\* array values, substitution variable, array limit, job id, typed options
ReservedNames ==
    {"command", "interpreter", "filename", "array", "variable", "array_limit",
     "_jobid", "jobname", "dependency", "deptype", "email", "threads",
     "output_directory"}

\* the directive names the code spells out itself
FixedSpellings ==
    {"job-name", "mail-user", "mail-type", "dependency", "cpus-per-task",
     "output", "error", "array"}

GenericNames(items) ==
    {items[i].name : i \in {j \in 1..Len(items) :
        items[j].k \in {"opt", "sbatch"} /\ items[j].name \notin FixedSpellings}}

\* C5: an entry of the option mapping produces a generic directive if and
\* only if its name is not reserved and its value is truthy.
C5_GenericDirectives ==
    LET expected == {n \in AttrNames : n \notin ReservedNames /\ Truthy(LastArgs[n])}
    IN  /\ (LastIsWrap /\ last.calls # <<>>)
              => GenericNames(last.calls[1].opts) = expected
        /\ (LastIsWrite /\ last.res.kind = "return")
              => GenericNames(FileAt(last.res.val.v)) = expected

ArrayLines(content) ==
    {i \in 1..Len(content) : content[i].k = "sbatch" /\ content[i].name = "array"}

\* what the claim says of a script written with the array values array
ArrayDirectiveOk(content, array, array_limit) ==
    /\ Cardinality(ArrayLines(content)) = 1
    /\ \A i \in ArrayLines(content) :
          /\ content[i].val.lo = 0
          /\ content[i].val.hi = Len(array.v) - 1
          /\ content[i].val.capped = Truthy(array_limit)
          /\ content[i].val.capped => content[i].val.limit = array_limit
          /\ i + 2 <= Len(content)
          /\ content[i + 1] = Blank
          /\ content[i + 2] = Line("data", "data", array)

----------------------------------------------------------------------------
(* SpecSeq: direct write and wrap calls with an output directory, one call  *)
(* at a time.  The directory 'a' may or may not exist at the start.         *)

OutDirs == {Path(<<"out">>), Path(<<"a", "out">>)}

SeqArgs ==
    {[NoArgs EXCEPT !["jobname"] = Str("a"), !["command"] = Str("echo"),
                    !["output_directory"] = od] : od \in OutDirs \cup {Absent, NoneV}}

InitSeq ==
    /\ attrs = NoArgs
    /\ files = [q \in {} |-> NoFile]
    /\ dirs \in {{}, {<<"a">>}}
    /\ inp = NoInput
    /\ last = NoOutcome
    /\ hist = NoHist
    /\ pc = NoCallers
    /\ loc = NoCallers

NextSeq ==
    \/ \E p \in SeqArgs : CallWrite(p)
    \/ \E p \in SeqArgs, out \in SbatchOutputs : CallWrap(p, out)

SpecSeq == InitSeq /\ [][NextSeq]_vars

\* the step is a write or wrap call with the output directory od set
SeqCall(od) ==
    /\ last'.op \in {"WriteSlurmFile", "WrapSlurmCommand"}
    /\ last'.arg["output_directory"] = od

ParentExists(d) == Parent(d) = <<>> \/ Parent(d) \in dirs

----------------------------------------------------------------------------
(* SpecConc: two callers, each running one write or wrap call with an       *)
(* output directory.  The calls interleave at the points where they touch   *)
(* the file system: opening the script, os.path.exists, os.mkdir, and the   *)
(* end of the call.  Each caller has its own job name, so its own script.   *)

Callers == {"c1", "c2"}

JobnameOf == [c \in Callers |-> IF c = "c1" THEN Str("a") ELSE Str("b")]

ConcArgs(c) ==
    {[NoArgs EXCEPT !["jobname"] = JobnameOf[c], !["command"] = Str("echo"),
                    !["output_directory"] = od] : od \in OutDirs}

NoCall == [op |-> "none", p |-> NoArgs, saw |-> "none", found |-> "none",
           res |-> NoRes, calls |-> <<>>]

\* 239-265 of WriteSlurmFile: the script is opened for writing, which
\* creates or empties it, and the head is written into the file object;
\* 119-134 of WrapSlurmCommand: the options are put together
Begin(c, op, p) ==
    /\ pc[c] = "idle"
    /\ pc' = [pc EXCEPT ![c] = "exists"]
    /\ loc' = [loc EXCEPT ![c] = [NoCall EXCEPT !.op = op, !.p = p]]
    /\ files' = IF op = "WriteSlurmFile"
                THEN WithFile(files, WriteFilename(p).v, <<>>)
                ELSE files
    /\ UNCHANGED <<attrs, dirs, inp, last, hist>>

\* 136-137 and 267-268: if output_directory: if not os.path.exists(...)
Exists(c) ==
    LET od == Arg(loc[c].p, "output_directory", NoneV)
    IN  /\ pc[c] = "exists"
        /\ IF Truthy(od) /\ ~DirExists(od.v)
           THEN /\ pc' = [pc EXCEPT ![c] = "mkdir"]
                /\ loc' = [loc EXCEPT ![c].saw = "missing"]
           ELSE /\ pc' = [pc EXCEPT ![c] = "rest"]
                /\ loc' = [loc EXCEPT ![c].saw = IF Truthy(od) THEN "exists" ELSE "unset"]
        /\ UNCHANGED <<attrs, files, dirs, inp, last, hist>>

\* 138 and 269: os.mkdir(output_directory).  When it raises, the call ends;
\* leaving the with block of WriteSlurmFile closes the script with what was
\* written so far.
MakeDir(c) ==
    LET p == loc[c].p
        od == p["output_directory"]
        r == Mkdir(od.v)
        found == IF DirExists(od.v) THEN "present"
                 ELSE IF Parent(od.v) # <<>> /\ ~DirExists(Parent(od.v)) THEN "noparent"
                 ELSE "missing"
    IN  /\ pc[c] = "mkdir"
        /\ IF r = "ok"
           THEN /\ dirs' = dirs \cup {od.v}
                /\ pc' = [pc EXCEPT ![c] = "rest"]
                /\ loc' = [loc EXCEPT ![c].found = found]
                /\ files' = files
           ELSE /\ dirs' = dirs
                /\ pc' = [pc EXCEPT ![c] = "done"]
                /\ loc' = [loc EXCEPT ![c].found = found, ![c].res = Raise(r)]
                /\ files' = IF loc[c].op = "WriteSlurmFile"
                            THEN WithFile(files, WriteFilename(p).v, ScriptHead(p))
                            ELSE files
        /\ UNCHANGED <<attrs, inp, last, hist>>

\* 270-292 of WriteSlurmFile: the rest is written, the script closed and its
\* path returned; 139-156 of WrapSlurmCommand: sbatch is run and its output
\* parsed
Rest(c, out) ==
    LET p == loc[c].p
    IN  /\ pc[c] = "rest"
        /\ pc' = [pc EXCEPT ![c] = "done"]
        /\ IF loc[c].op = "WriteSlurmFile"
           THEN /\ files' = WithFile(files, WriteFilename(p).v, Script(p))
                /\ loc' = [loc EXCEPT ![c].res = Return(WriteFilename(p))]
           ELSE /\ files' = files
                /\ loc' = [loc EXCEPT ![c].res = ParseJobId(out),
                                      ![c].calls = <<WrapInvocation(p)>>]
        /\ UNCHANGED <<attrs, dirs, inp, last, hist>>

InitConc ==
    /\ attrs = NoArgs
    /\ files = [q \in {} |-> NoFile]
    /\ dirs \in {{}, {<<"a">>}}
    /\ inp = NoInput
    /\ last = NoOutcome
    /\ hist = NoHist
    /\ pc = [c \in Callers |-> "idle"]
    /\ loc = [c \in Callers |-> NoCall]

NextConc ==
    \E c \in Callers :
        \/ \E op \in {"WriteSlurmFile", "WrapSlurmCommand"}, p \in ConcArgs(c) : Begin(c, op, p)
        \/ Exists(c)
        \/ MakeDir(c)
        \/ \E out \in SbatchOutputs : Rest(c, out)

SpecConc == InitConc /\ [][NextConc]_vars

\* a script that stops before its command lines
Partial(content) ==
    /\ content # NoFile
    /\ Len(content) >= 1
    /\ content[1].k = "shebang"
    /\ \A i \in 1..Len(content) : content[i].k \notin {"cmd", "blank"}
                                   /\ content[i].name \notin {"output", "error"}

\* C10: a caller that saw the directory missing and whose os.mkdir then finds
\* it present (another caller created it in between) ends with
\* FileExistsError before anything is submitted, and on the write path
\* leaves a script without its output directives and command lines.
C10_LosingCallerAborts ==
    \A c \in Callers :
        loc[c].found = "present"
            => /\ loc[c].saw = "missing"
               /\ pc[c] = "done"
               /\ loc[c].res = Raise("FileExistsError")
               /\ loc[c].calls = <<>>
               /\ loc[c].op = "WriteSlurmFile"
                    => Partial(FileAt(WriteFilename(loc[c].p).v))

\* C10 happens: both callers pass the existence check on the same missing
\* directory, one creates it and finishes, the other's creation fails
C10_Witness ==
    /\ loc["c1"].saw = "missing"
    /\ loc["c2"].saw = "missing"
    /\ loc["c1"].p["output_directory"] = loc["c2"].p["output_directory"]
    /\ loc["c1"].op = "WrapSlurmCommand"
    /\ loc["c1"].res.kind = "return"
    /\ loc["c1"].calls # <<>>
    /\ loc["c2"].op = "WriteSlurmFile"
    /\ loc["c2"].res = Raise("FileExistsError")
    /\ Partial(FileAt("b.srun"))

----------------------------------------------------------------------------
(* Output files, src/slurmpy.py 504-528 and 572-590.  The names that glob   *)
(* and re.search look into are sequences of characters; a path on disk is   *)
(* the tuple of its components, each a sequence of characters, and an       *)
(* output directory is the Path of its components.                          *)

\* the characters of the names, in the order of their code points
AsciiOrder ==
    <<"-", ".", "/", "0", "1", "2", "3", "4", "5", "6", "7", "8", "9", "N",
      "_", "a", "d", "e", "j", "l", "m", "n", "o", "r", "s", "t", "u">>

\* ord(c), up to the order it gives
Ord(c) == CHOOSE i \in 1..Len(AsciiOrder) : AsciiOrder[i] = c

\* a < b for two str: the first differing character decides, a proper prefix
\* comes first
RECURSIVE StrLess(_, _)
StrLess(a, b) ==
    IF b = <<>> THEN FALSE
    ELSE IF a = <<>> THEN TRUE
    ELSE IF Head(a) = Head(b) THEN StrLess(Tail(a), Tail(b))
    ELSE Ord(Head(a)) < Ord(Head(b))

\* sorted(names), for names that are all different
RECURSIVE Sorted(_)
Sorted(names) ==
    IF names = {} THEN <<>>
    ELSE LET least == CHOOSE x \in names : \A y \in names \ {x} : StrLess(x, y)
         IN  <<least>> \o Sorted(names \ {least})

DigitChars == <<"0", "1", "2", "3", "4", "5", "6", "7", "8", "9">>

\* '{}'.format(n) for an int n >= 0
RECURSIVE Digits(_)
Digits(n) ==
    IF n < 10 THEN <<DigitChars[n + 1]>>
    ELSE Digits(n \div 10) \o <<DigitChars[(n % 10) + 1]>>

\* '{}'.format(v)
Format(v) ==
    CASE v.t = "chars" -> v.v
      [] v.t = "int" -> Digits(v.v)
      [] v.t = "none" -> <<"N", "o", "n", "e">>

StartsWith(s, pre) == Len(s) >= Len(pre) /\ SubSeq(s, 1, Len(pre)) = pre

EndsWith(s, suf) == Len(s) >= Len(suf) /\ SubSeq(s, Len(s) - Len(suf) + 1, Len(s)) = suf

\* the path as a str: its components joined by '/'
RECURSIVE PathChars(_)
PathChars(p) ==
    IF Len(p) = 1 THEN p[1]
    ELSE p[1] \o <<"/">> \o PathChars(Tail(p))

\* everything on disk: the files and the directories
Entries == DOMAIN files \cup dirs

\* the literal 'all'
AllExt == <<"a", "l", "l">>

\* 520-524 with the output directory left out of the name
OutputPrefixSlurmOnly(a) ==
    [dir |-> <<>>, base |-> <<"s", "l", "u", "r", "m", "-">> \o Format(a["_jobid"])]

\* 520-524: the directory and the start of the name of the output files
OutputPrefix(a) ==
    IF Truthy(a["output_directory"])
    THEN [dir |-> a["output_directory"].v,
          base |-> Format(a["jobname"]) \o <<"-">> \o Format(a["_jobid"])]
    ELSE [dir |-> <<>>, base |-> <<"s", "l", "u", "r", "m", "-">> \o Format(a["_jobid"])]

\* fnmatch of a name with  base + '*.' + tail : the name starts with base and
\* what follows holds a '.' followed by tail at its end
MatchDotTail(name, base, tail) ==
    /\ StartsWith(name, base)
    /\ EndsWith(name, <<".">> \o tail)
    /\ Len(name) >= Len(base) + 1 + Len(tail)

\* fnmatch of a name with  base + '*.*' : the name starts with base and what
\* follows holds a '.'
MatchDotAny(name, base) ==
    /\ StartsWith(name, base)
    /\ \E i \in (Len(base) + 1)..Len(name) : name[i] = "."

\* 525-528: glob.glob(filename + '*.*') or glob.glob(filename + '*.' + extension);
\* '*' does not go across '/', so the matches are entries of the one directory
Glob(filename, extension) ==
    {PathChars(p) : p \in
        {q \in Entries :
            /\ Parent(q) = filename.dir
            /\ IF extension.v = AllExt
               THEN MatchDotAny(q[Len(q)], filename.base)
               ELSE MatchDotTail(q[Len(q)], filename.base, extension.v)}}

\* 517-528
SlurmJob_GetOutputFiles(extension) ==
    IF ~HasAttr("_jobid")
    THEN [attrs |-> attrs, res |-> Return(List(<<>>)), files |-> files, dirs |-> dirs,
          calls |-> <<>>, dstep |-> NoDirStep]
    ELSE IF Truthy(attrs["output_directory"]) /\ ~HasAttr("jobname")
    THEN Failed("AttributeError")
    ELSE LET found == Sorted(Glob(OutputPrefix(attrs), extension))
         IN  [attrs |-> attrs,
              res |-> Return(List([i \in 1..Len(found) |-> Chars(found[i])])),
              files |-> files, dirs |-> dirs, calls |-> <<>>, dstep |-> NoDirStep]

\* re.search('_[^{}]'.format(index), x): an underscore followed by a
\* character that is none of the characters of the formatted index
SearchUnderscoreNot(index, x) ==
    \E i \in 1..(Len(x) - 1) : x[i] = "_" /\ x[i + 1] \notin Range(Format(index))

\* the entry on disk that a str names
EntryOf(x) == CHOOSE p \in Entries : PathChars(p) = x

\* 587-590: print(file), then open it and print what it holds; open raises
\* on a directory, after the name is printed
RECURSIVE ShowFiles(_)
ShowFiles(names) ==
    IF names = <<>> THEN [printed |-> <<>>, res |-> Return(NoneV)]
    ELSE LET p == EntryOf(Head(names).v)
         IN  IF p \in DOMAIN files
             THEN LET rest == ShowFiles(Tail(names))
                  IN  [printed |-> <<Head(names), files[p]>> \o rest.printed,
                       res |-> rest.res]
             ELSE [printed |-> <<Head(names)>>, res |-> Raise("IsADirectoryError")]

\* 585-590.  GetOutputFiles is called without the extension.
SlurmJob_ShowOutput(index, extension) ==
    LET got == SlurmJob_GetOutputFiles(Chars(AllExt))
    IN  IF got.res.kind = "raise"
        THEN [attrs |-> attrs, res |-> got.res, files |-> files, dirs |-> dirs,
              calls |-> <<>>, dstep |-> NoDirStep, printed |-> <<>>]
        ELSE LET files_to_show ==
                     SelectSeq(got.res.val.v,
                               LAMBDA x : ~SearchUnderscoreNot(index, x.v))
                 shown == ShowFiles(files_to_show)
             IN  [attrs |-> attrs, res |-> shown.res, files |-> files, dirs |-> dirs,
                  calls |-> <<>>, dstep |-> NoDirStep, printed |-> shown.printed]

\* sj.GetOutputFiles(extension)
JobGetOutputFiles(extension) ==
    LET eff == SlurmJob_GetOutputFiles(extension)
    IN  /\ last' = Outcome("SlurmJob.GetOutputFiles", extension, eff, <<>>)
        /\ UNCHANGED <<attrs, files, dirs, inp, hist, pc, loc>>

\* sj.ShowOutput(index, extension)
JobShowOutput(index, extension) ==
    LET eff == SlurmJob_ShowOutput(index, extension)
    IN  /\ last' = Outcome("SlurmJob.ShowOutput",
                           [t |-> "args", index |-> index, extension |-> extension],
                           eff, eff.printed)
        /\ UNCHANGED <<attrs, files, dirs, inp, hist, pc, loc>>

----------------------------------------------------------------------------
(* SpecOutput: a handle created from initial options, on a disk that holds  *)
(* up to MaxFiles output files; the handle is submitted with a wrap, its    *)
(* output files are listed and shown.                                       *)

MaxFiles == 2

\* the name slurm gives an output file: '%x-%j.out', '%x-%A_%a.out', or
\* 'slurm-%j.out' and 'slurm-%A_%a.out' when the script names none
OutName(name, id, task, ext) ==
    name \o <<"-">> \o id
         \o (IF task = <<>> THEN <<>> ELSE <<"_">> \o task)
         \o (IF ext = <<>> THEN <<>> ELSE <<".">> \o ext)

SlurmChars == <<"s", "l", "u", "r", "m">>
OutExt == <<"o", "u", "t">>
ErrExt == <<"e", "r", "r">>

\* the output directory 'o'
OutDir == <<(<<"o">>)>>

\* a directory whose name has the form of an output file
DotDir == <<OutName(SlurmChars, Job12, <<>>, <<"d">>)>>

\* the files that may be on disk
FilePool ==
    {<<OutName(SlurmChars, Job12, <<>>, OutExt)>>,
     <<OutName(SlurmChars, Job12, <<>>, ErrExt)>>,
     <<OutName(SlurmChars, Job12, <<"1">>, OutExt)>>,
     <<OutName(SlurmChars, Job12, <<"2">>, OutExt)>>,
     <<OutName(SlurmChars, Job12, <<"1", "2">>, OutExt)>>,
     <<OutName(SlurmChars, Job12, <<>>, <<>>)>>,
     <<OutName(SlurmChars, Job7, <<>>, OutExt)>>,
     OutDir \o <<OutName(<<"j">>, Job12, <<>>, OutExt)>>,
     OutDir \o <<OutName(<<"j">>, Job12, <<"1">>, OutExt)>>,
     OutDir \o <<OutName(<<"j">>, Job7, <<>>, ErrExt)>>}

\* the initial options of the handle
OutputAttrs ==
    {[NoArgs EXCEPT !["command"] = Str("echo"), !["jobname"] = jn,
                    !["output_directory"] = od, !["_jobid"] = id] :
        jn \in {Absent, Chars(<<"j">>)},
        od \in {Absent, Path(OutDir)},
        id \in {Absent, Chars(Job12), Chars(<<"1">>), Chars(Job7)}}

OutputExtensions == {Chars(AllExt), Chars(OutExt), Chars(ErrExt)}

OutputIndexes == {Num(0), Num(1), Num(12)}

InitOutput ==
    /\ attrs \in OutputAttrs
    /\ \E present \in SUBSET FilePool :
          /\ Cardinality(present) <= MaxFiles
          /\ files = [q \in present |-> Str("done")]
          /\ dirs \in {ds \in SUBSET {OutDir, DotDir} :
                          \A q \in present : Len(q) > 1 => Parent(q) \in ds}
    /\ inp = NoInput
    /\ last = NoOutcome
    /\ hist = NoHist
    /\ pc = NoCallers
    /\ loc = NoCallers

NextOutput ==
    \/ \E out \in {SubmittedText(Job12), ErrorText} : JobWrap(out)
    \/ \E extension \in OutputExtensions : JobGetOutputFiles(extension)
    \/ \E index \in OutputIndexes, extension \in OutputExtensions :
          JobShowOutput(index, extension)

SpecOutput == InitOutput /\ [][NextOutput]_vars

\* the names of a list of str
NamesOf(l) == [i \in 1..Len(l) |-> l[i].v]

StrictlySorted(names) ==
    \A i \in 1..(Len(names) - 1) : StrLess(names[i], names[i + 1])

\* <output directory>/<jobname>-J, or slurm-J in the working directory
DiscoveryPrefix ==
    IF Truthy(attrs["output_directory"])
    THEN [dir |-> attrs["output_directory"].v,
          base |-> OutName(Format(attrs["jobname"]), Format(attrs["_jobid"]), <<>>, <<>>)]
    ELSE [dir |-> <<>>,
          base |-> OutName(SlurmChars, Format(attrs["_jobid"]), <<>>, <<>>)]

\* the handle has what the prefix is made of
DiscoveryNamed == Truthy(attrs["output_directory"]) => HasAttr("jobname")

\* C12 as stated: with a job id J on the handle, the list is sorted and holds
\* exactly the existing files (a directory counts as one) whose names begin
\* with the prefix, those ending in '.' and the extension when one is given;
\* with no job id it is empty.
C12_DiscoveredFilesByPrefix ==
    last.op = "SlurmJob.GetOutputFiles"
        => IF ~HasAttr("_jobid")
           THEN last.res = Return(List(<<>>))
           ELSE DiscoveryNamed
                  => /\ last.res.kind = "return"
                     /\ StrictlySorted(NamesOf(last.res.val.v))
                     /\ Range(NamesOf(last.res.val.v)) =
                          {PathChars(q) : q \in
                              {f \in DOMAIN files \cup dirs :
                                  /\ Parent(f) = DiscoveryPrefix.dir
                                  /\ StartsWith(f[Len(f)], DiscoveryPrefix.base)
                                  /\ last.arg.v # AllExt
                                        => EndsWith(f[Len(f)], <<".">> \o last.arg.v)}}

\* what follows the prefix in a name
AfterPrefix(name) == SubSeq(name, Len(DiscoveryPrefix.base) + 1, Len(name))

\* C12 amended: with a job id J on the handle, the list is sorted and holds
\* exactly the existing files and directories of the prefix's directory
\* whose names begin with the prefix and go on with something that holds a
\* '.', or that ends in '.' and the extension when one is given; with an
\* output directory and no job name the call raises AttributeError; with no
\* job id the list is empty.
C12_DiscoveredDottedEntries ==
    last.op = "SlurmJob.GetOutputFiles"
        => IF ~HasAttr("_jobid")
           THEN last.res = Return(List(<<>>))
           ELSE IF ~DiscoveryNamed
           THEN last.res = Raise("AttributeError")
           ELSE /\ last.res.kind = "return"
                /\ StrictlySorted(NamesOf(last.res.val.v))
                /\ Range(NamesOf(last.res.val.v)) =
                     {PathChars(q) : q \in
                         {f \in DOMAIN files \cup dirs :
                             /\ Parent(f) = DiscoveryPrefix.dir
                             /\ StartsWith(f[Len(f)], DiscoveryPrefix.base)
                             /\ IF last.arg.v = AllExt
                                THEN "." \in Range(AfterPrefix(f[Len(f)]))
                                ELSE EndsWith(AfterPrefix(f[Len(f)]),
                                              <<".">> \o last.arg.v)}}

\* C12 happens: a wrap gave the handle the job id 12, and the .out file of
\* job 12 in the output directory is listed, the .err file of job 7
\* left out
C12_Witness ==
    /\ last.op = "SlurmJob.GetOutputFiles"
    /\ last.arg = Chars(OutExt)
    /\ hist.submitted
    /\ attrs["_jobid"] = Chars(Job12)
    /\ attrs["output_directory"] = Path(OutDir)
    /\ attrs["jobname"] = Chars(<<"j">>)
    /\ last.res.kind = "return"
    /\ OutDir \o <<OutName(<<"j">>, Job7, <<>>, ErrExt)>> \in DOMAIN files
    /\ NamesOf(last.res.val.v) =
          <<PathChars(OutDir \o <<OutName(<<"j">>, Job12, <<>>, OutExt)>>)>>

\* the last place of the character c in s, 0 when it is not there
LastIndexOf(s, c) ==
    IF c \in Range(s) THEN CHOOSE i \in 1..Len(s) : s[i] = c /\ \A j \in (i + 1)..Len(s) : s[j] # c
    ELSE 0

\* the name of a path without its directory and without its extension
Stem(x) ==
    LET name == SubSeq(x, LastIndexOf(x, "/") + 1, Len(x))
        dot == LastIndexOf(name, ".")
    IN  IF dot = 0 THEN name ELSE SubSeq(name, 1, dot - 1)

\* the task-array index an output file carries: the digits after the last
\* underscore of its stem, <<>> when the stem does not end that way
TaskIndexOf(x) ==
    LET stem == Stem(x)
        us == LastIndexOf(stem, "_")
        task == SubSeq(stem, us + 1, Len(stem))
    IN  IF us = 0 \/ task = <<>> \/ \E i \in 1..Len(task) : task[i] \notin Range(DigitChars)
        THEN <<>>
        ELSE task

\* the output files found on the handle, all extensions
Discovered == SlurmJob_GetOutputFiles(Chars(AllExt)).res

\* the names among the printed lines
PrintedNames == SelectSeq(last.printed, LAMBDA e : e.t = "chars")

\* C11: ShowOutput(index, extension) prints, of the output files found (all
\* of them files, no directory among them), exactly those whose task-array
\* index is the requested one and those that carry no task-array index, and
\* of these only the files with the requested extension when one is given.
C11_ShownFilesMatchIndex ==
    (/\ last.op = "SlurmJob.ShowOutput"
     /\ Discovered.kind = "return"
     /\ \A i \in 1..Len(Discovered.val.v) : EntryOf(Discovered.val.v[i].v) \in DOMAIN files)
        => PrintedNames =
              SelectSeq(Discovered.val.v,
                        LAMBDA x : /\ TaskIndexOf(x.v) \in {<<>>, Format(last.arg.index)}
                                   /\ last.arg.extension.v # AllExt
                                         => EndsWith(x.v, <<".">> \o last.arg.extension.v))

====
